---- MODULE Spec2Model ----
(***************************************************************************)
(* A state-machine model of src/src/App.jsx (the RITUAL habit tracker):    *)
(* the root component's state and refs, the settings panel's draft state,  *)
(* the two localStorage items, the pending timeouts and the event          *)
(* handlers.  Strings are sequences of tokens, so that the key             *)
(* `${catId}:${orbital}` is a real concatenation.  Time is sampled every   *)
(* TickMs milliseconds; any number of events may happen between two        *)
(* samples, and a timeout runs at the first sample at or after its         *)
(* deadline.                                                               *)
(***************************************************************************)
EXTENDS Integers, Sequences, FiniteSets, TLC

\* ------------------------------------------------------------------ bounds
MaxTicks == 3
TickMs == 1000
MaxPending == 2
MaxDay == 1

\* ------------------------------------------------------- program constants
LongPressMs == 380
ToastMs == 2000
SavedMs == 1500
SwipeThreshold == 60
MaxView == 2

\* null is the empty sequence and a value v that may be null is <<v>>.
Null == << >>

Some(v) == << v >>

Val(x) == x[1]

\* DEFAULT_CATEGORIES: id and default orbitals (label, emoji, colours left out).
DEFAULT_CATEGORIES ==
  << [id |-> <<"finance">>,    orbitals |-> << <<"Track">>, <<"Invest">>, <<"Scale">> >>],
     [id |-> <<"tinkering">>,  orbitals |-> << <<"Design">>, <<"Build">>, <<"Prototype">> >>],
     [id |-> <<"health">>,     orbitals |-> << <<"Workout">>, <<"Grooming">>, <<"Reading">> >>],
     [id |-> <<"homestead">>,  orbitals |-> << <<"Cook">>, <<"Preserve">>, <<"Garden">> >>],
     [id |-> <<"art">>,        orbitals |-> << <<"Paint">>, <<"Music">>, <<"Write">> >>],
     [id |-> <<"family">>,     orbitals |-> << <<"Communication">>, <<"Walk">>, <<"Pup">> >>],
     [id |-> <<"fellowship">>, orbitals |-> << <<"Maker Class">>, <<"Outdoors">>, <<"Fantasy">> >>],
     [id |-> <<"mental">>,     orbitals |-> << <<"Meditation">>, <<"Reflection">>, <<"Stillness">> >>] >>

\* Slice indices are 0-based in the source: DEFAULT_CATEGORIES[idx].
Category(idx) == DEFAULT_CATEGORIES[idx + 1]

CategoryIds == { DEFAULT_CATEGORIES[n].id : n \in 1..Len(DEFAULT_CATEGORIES) }

\* ------------------------------------------------------------ input sets
\* The pointers (fingers, mouse) that press slices, the slices they press, the
\* orbital buttons that are tapped, the clientX values of touches, the names
\* typed into the settings inputs and the categories and inputs edited there.
Pointers == {1, 2}
PressSlices == {0, 1}
TapOrbitals == {1}
TouchXs == {0, 60, 61}
TypedNames == { <<"Run">> }
EditSlices == {0}
EditPositions == {1}
ChartOrbitals == {1, 2}
ChartViews == {0, 1}
HistoryViews == {0, 2}
SwipeStartXs == {61}
SwipeEndXs == {0}

\* --------------------------------------------------------------- state
VARIABLES
  logs, orbitals, currentView, activeSlice, orbitalPositions, showSettings,
  justLogged, longPressTimer, isLongPress, pointerDownSlice, dragStartX,
  todayStr,
  expandedCat, editValues, editValuesIsNew, saved,
  ritual_logs, ritual_orbitals,
  longPressTimeouts, toastTimeouts, savedTimeouts,
  now, utcDay, localDay, tz, pointerOn,
  last, prevCall, allShort, edits, renames

\* last, prevCall, allShort, edits and renames are history variables: the
\* event that led to the state; the latest logActivity call since the logs
\* were cleared (its arguments, the local date and the time of the call);
\* whether every press so far was released before the sample at which its
\* timeout was due; the renames typed since the panel was opened or saved;
\* the renames saved so far.  No handler reads them.
appVars == << logs, orbitals, currentView, activeSlice, orbitalPositions,
              showSettings, justLogged, todayStr >>
refVars == << longPressTimer, isLongPress, pointerDownSlice, dragStartX >>
panelVars == << expandedCat, editValues, editValuesIsNew, saved >>
storageVars == << ritual_logs, ritual_orbitals >>
timeoutVars == << longPressTimeouts, toastTimeouts, savedTimeouts >>
envVars == << now, utcDay, localDay, tz, pointerOn >>
histVars == << last, prevCall, allShort, edits, renames >>
vars == << appVars, refVars, panelVars, storageVars, timeoutVars, envVars, histVars >>

\* ------------------------------------------------------------- helpers
\* { ...obj, [k]: v }
Spread(obj, k, v) == [x \in (DOMAIN obj) \cup {k} |-> IF x = k THEN v ELSE obj[x]]

\* obj[k] || dflt
GetOr(obj, k, dflt) == IF k \in DOMAIN obj THEN obj[k] ELSE dflt

EmptyObj == << >>

\* toDateStr: d.toISOString().split("T")[0] is the calendar date in UTC of the
\* instant; dates are day numbers.
toDateStr(utc) == utc

\* `${catId}:${orbital}`
LogKey(catId, orbital) == catId \o <<":">> \o orbital

\* UpToColon without the split: the whole key.
WholeKey(s) == s

\* k.split(":")[0]
RECURSIVE UpToColon(_)
UpToColon(s) ==
  IF s = << >> \/ Head(s) = ":" THEN << >> ELSE <<Head(s)>> \o UpToColon(Tail(s))

\* JSON.stringify of an object of objects of numbers, as the set of its
\* members, and JSON.parse of that text.
JSONstringifyLogs(l) ==
  { << d, { << k, l[d][k] >> : k \in DOMAIN l[d] } >> : d \in DOMAIN l }

JSONparseLogs(text) ==
  [ d \in { m[1] : m \in text } |->
      LET day == (CHOOSE m \in text : m[1] = d)[2]
      IN  [ k \in { e[1] : e \in day } |-> (CHOOSE e \in day : e[1] = k)[2] ] ]

\* JSON.stringify of an object of arrays of strings, and JSON.parse of it.
JSONstringifyOrbitals(o) == { << c, o[c] >> : c \in DOMAIN o }

JSONparseOrbitals(text) ==
  [ c \in { m[1] : m \in text } |-> (CHOOSE m \in text : m[1] = c)[2] ]

\* DEFAULT_CATEGORIES.reduce((a, c) => ({ ...a, [c.id]: [...c.orbitals] }), {})
DefaultOrbitals ==
  [ c \in CategoryIds |->
      DEFAULT_CATEGORIES[CHOOSE n \in 1..Len(DEFAULT_CATEGORIES) :
                            DEFAULT_CATEGORIES[n].id = c].orbitals ]

\* orbitals[cat.id] || cat.orbitals
OrbsOf(config, idx) == GetOr(config, Category(idx).id, Category(idx).orbitals)

\* The spread table and the angle (in tenths of a degree) of each orbital
\* button: midAngle + spread[i] - 90, with midAngle = idx * 45 + 22.5.
SpreadTable(n) ==
  IF n = 3 THEN << -38, 0, 38 >>
  ELSE IF n = 4 THEN << -55, -18, 18, 55 >>
  ELSE << -50, -25, 0, 25, 50 >>

Positions(idx, orbs) ==
  [ i \in 1..Len(orbs) |-> (idx * 450 + 225) + SpreadTable(Len(orbs))[i] * 10 - 900 ]

\* setTimeout(cb, ms): the new timeout goes behind the pending ones.
SetTimeout(pending, entry) == Append(pending, entry)

\* One sample of time passes for every pending timeout.
Elapse(pending) ==
  [ n \in 1..Len(pending) |->
      [ pending[n] EXCEPT !.remaining = IF @ > TickMs THEN @ - TickMs ELSE 0 ] ]

Due(pending) == pending # << >> /\ pending[1].remaining = 0

NoneDue(pending) == \A n \in 1..Len(pending) : pending[n].remaining > 0

\* clearTimeout(longPressTimer.current): longPressTimer is the place of the
\* timeout the ref names among the pending ones, 0 when the ref is null or
\* names a timeout that has run or was cleared.
ClearTimeout(pending, ref) ==
  IF ref = 0 THEN pending
  ELSE [ n \in 1..(Len(pending) - 1) |-> IF n < ref THEN pending[n] ELSE pending[n + 1] ]

\* The component function runs again: const todayStr = toDateStr().
Render(changed) ==
  todayStr' = IF changed THEN toDateStr(utcDay) ELSE todayStr

\* ------------------------------------------------------------ the calendar
\* A Date at local midnight is the number of its local calendar day; day 0 is
\* Monday 2024-07-29.  Months are numbered from 0, as Date numbers them.
EpochYear == 2024
EpochMonth == 6
EpochDate == 29

DaysInMonth(y, m) ==
  IF m \in {3, 5, 8, 10} THEN 30
  ELSE IF m # 1 THEN 31
  ELSE IF y % 4 = 0 /\ (y % 100 # 0 \/ y % 400 = 0) THEN 29 ELSE 28

\* new Date(y, m, d) and setDate(d): a day of the month before 1 or after the
\* month's last day is carried into the months before or after.
RECURSIVE NewDate(_, _, _)
NewDate(y, m, d) ==
  IF m < 0 THEN NewDate(y - 1, m + 12, d)
  ELSE IF m > 11 THEN NewDate(y + 1, m - 12, d)
  ELSE IF d < 1
       THEN IF m = 0 THEN NewDate(y - 1, 11, d + DaysInMonth(y - 1, 11))
            ELSE NewDate(y, m - 1, d + DaysInMonth(y, m - 1))
  ELSE IF d > DaysInMonth(y, m) THEN NewDate(y, m + 1, d - DaysInMonth(y, m))
  ELSE [y |-> y, m |-> m, d |-> d]

\* getFullYear(), getMonth() and getDate() of a local day.
CivilOf(day) == NewDate(EpochYear, EpochMonth, EpochDate + day)

DayRange == (0 - 7)..13

\* The calendar date of each local day, and the local day of a calendar date.
Calendar == [ day \in DayRange |-> CivilOf(day) ]

DayOf(civil) == CHOOSE day \in DayRange : Calendar[day] = civil

\* getDay(): 0 is Sunday.
getDay(day) == (day + 1) % 7

\* The UTC date of the instant of local midnight of a local day: east of UTC
\* that instant is in the evening of the UTC day before.
UtcDayOfLocalMidnight(day, zone) == IF zone = 1 THEN day - 1 ELSE day

\* getWeekDates, lines 46-56, at a moment of local day `local`.
getWeekDates(local, zone) ==
  LET today == CivilOf(local)
      day == getDay(local)
      diff == today.d - day + (IF day = 0 THEN 0 - 6 ELSE 1)
      mon == NewDate(today.y, today.m, diff)
  IN  [ n \in 1..7 |->
          LET d == NewDate(mon.y, mon.m, mon.d + (n - 1))
          IN  toDateStr(UtcDayOfLocalMidnight(DayOf(d), zone)) ]

\* ------------------------------------------------------- the weekly chart
DAY_LABELS == << "Mon", "Tue", "Wed", "Thu", "Fri", "Sat", "Sun" >>

\* k.startsWith(prefix)
StartsWith(k, prefix) ==
  Len(k) >= Len(prefix) /\ SubSeq(k, 1, Len(prefix)) = prefix

\* CountFor without the filter: every key of the day is counted.
CountForAnyCategory(dayLogs, catId) == Cardinality(DOMAIN dayLogs)

\* Object.keys(dayLogs).filter(k => k.startsWith(cat.id + ":")).length
CountFor(dayLogs, catId) ==
  Cardinality({ k \in DOMAIN dayLogs : StartsWith(k, catId \o <<":">>) })

\* The data of WeeklyChart, lines 88-96: one row for each week date, with the
\* day's label under "day" and a count under each category's id.
WeeklyChartData(store, weekDates, categories) ==
  [ n \in 1..Len(weekDates) |->
      LET dayLogs == GetOr(store, weekDates[n], EmptyObj)
      IN  [ x \in {<<"day">>} \cup { categories[c].id : c \in 1..Len(categories) } |->
              IF x = <<"day">> THEN DAY_LABELS[n] ELSE CountFor(dayLogs, x) ] ]

\* ------------------------------------------------------ the logged sets
\* getLoggedSet(dateStr) of HeatmapCalendar, lines 140-148: an empty catId is
\* not added.
getLoggedSet(store, dateStr) ==
  LET dayLogs == GetOr(store, dateStr, EmptyObj)
  IN  { UpToColon(k) : k \in DOMAIN dayLogs } \ { << >> }

\* getLoggedCatsToday, lines 345-350, with the todayStr of the render.
getLoggedCatsToday(store, today) ==
  LET dayLogs == GetOr(store, today, EmptyObj)
  IN  { UpToColon(k) : k \in DOMAIN dayLogs }

\* ---------------------------------------------------------------- Init
\* A text that JSON.parse throws on.
Malformed == { << "{" >> }

Throws(text) == text = Malformed

\* A LogStore and an OrbitalConfig left in localStorage by an earlier session.
EarlierLogs ==
  Spread(EmptyObj, toDateStr(0), Spread(EmptyObj, LogKey(<<"finance">>, <<"Budget">>), 0))

EarlierOrbitals ==
  Spread(DefaultOrbitals, <<"finance">>, << <<"Budget">>, <<"Invest">>, <<"Scale">> >>)

\* The contents of localStorage before the app is mounted: no item, an item
\* that does not parse, an item written by an earlier session.
StoredLogsAtStart == { Null, Some(Malformed), Some(JSONstringifyLogs(EarlierLogs)) }

StoredOrbitalsAtStart ==
  { Null, Some(Malformed), Some(JSONstringifyOrbitals(EarlierOrbitals)) }

\* The time zones (-1, 0, 1: see DayChanges) and the dates at which the app
\* is mounted; day 0 is Monday 2024-07-29.
TimeZones == {0 - 1, 0, 1}

StartDays == 0..6

\* useState initialisers of App (lines 319-327):
\* try { JSON.parse(getItem("ritual_logs") || "{}") } catch { {} }
InitialLogs(item) ==
  LET text == IF item = Null THEN JSONstringifyLogs(EmptyObj) ELSE Val(item)
  IN  IF Throws(text) THEN EmptyObj ELSE JSONparseLogs(text)

\* InitialOrbitals with an empty object where the defaults belong.
InitialOrbitalsNoDefaults(item) ==
  IF item = Null THEN EmptyObj
  ELSE IF Throws(Val(item)) THEN EmptyObj
  ELSE JSONparseOrbitals(Val(item))

\* try { JSON.parse(getItem("ritual_orbitals") || "null") || defaults }
\* catch { defaults }
InitialOrbitals(item) ==
  IF item = Null THEN DefaultOrbitals
  ELSE IF Throws(Val(item)) THEN DefaultOrbitals
  ELSE JSONparseOrbitals(Val(item))

\* The state after the first render and its effects, for a time zone, the
\* UTC and local dates of the moment and the two items found in localStorage.
InitAt(zone, utc, local, logsItem, orbitalsItem) ==
  /\ logs = InitialLogs(logsItem)
  /\ orbitals = InitialOrbitals(orbitalsItem)
  /\ currentView = 0
  /\ activeSlice = Null
  /\ orbitalPositions = << >>
  /\ showSettings = FALSE
  /\ justLogged = Null
  /\ longPressTimer = 0
  /\ isLongPress = FALSE
  /\ pointerDownSlice = Null
  /\ dragStartX = Null
  /\ tz = zone
  /\ utcDay = utc
  /\ localDay = local
  /\ now = 0
  /\ todayStr = toDateStr(utcDay)
  /\ expandedCat = Null
  /\ editValues = Null
  /\ editValuesIsNew = FALSE
  /\ saved = FALSE
  \* the two persist effects run after the first render
  /\ ritual_logs = Some(JSONstringifyLogs(logs))
  /\ ritual_orbitals = Some(JSONstringifyOrbitals(orbitals))
  /\ longPressTimeouts = << >>
  /\ toastTimeouts = << >>
  /\ savedTimeouts = << >>
  /\ pointerOn = [ p \in Pointers |-> Null ]
  /\ last = [ op |-> "mount", logsItem |-> logsItem, orbitalsItem |-> orbitalsItem ]
  /\ prevCall = Null
  /\ allShort = TRUE
  /\ edits = << >>
  /\ renames = << >>

\* A first start (nothing stored) in UTC.
Init == InitAt(0, 0, 0, Null, Null)

\* A first start in any time zone, at a moment when the local date is the
\* UTC date or the one next to it on the zone's side.
InitZones ==
  \E zone \in TimeZones, utc \in StartDays, local \in StartDays :
     /\ local = utc \/ local = utc + zone
     /\ InitAt(zone, utc, local, Null, Null)

\* A first start in any time zone on day 0, at a moment when the local date
\* is the UTC date.
InitMonday == \E zone \in TimeZones : InitAt(zone, 0, 0, Null, Null)

\* A start in UTC with anything in localStorage.
InitStored ==
  \E logsItem \in StoredLogsAtStart, orbitalsItem \in StoredOrbitalsAtStart :
     InitAt(0, 0, 0, logsItem, orbitalsItem)

\* ---------------------------------------------------- pointer events
\* The slices can be pressed when the pie view is shown and neither the
\* dismiss backdrop (activeSlice !== null) nor the settings panel covers it.
SlicesReachable == currentView = 0 /\ activeSlice = Null /\ ~showSettings

\* handlePointerDown(idx, e), lines 364-389.
handlePointerDown(idx) ==
  /\ isLongPress' = FALSE
  /\ pointerDownSlice' = Some(idx)
  /\ longPressTimeouts' =
       SetTimeout(longPressTimeouts, [idx |-> idx, remaining |-> LongPressMs])
  /\ longPressTimer' = Len(longPressTimeouts')

\* handlePointerUp, lines 391-398 (also onPointerCancel, line 552).
handlePointerUp ==
  /\ longPressTimeouts' = ClearTimeout(longPressTimeouts, longPressTimer)
  /\ longPressTimer' = 0
  /\ isLongPress' = FALSE
  /\ pointerDownSlice' = Null

\* handlePointerLeave, lines 400-403.
handlePointerLeave ==
  /\ longPressTimeouts' = ClearTimeout(longPressTimeouts, longPressTimer)
  /\ longPressTimer' = 0
  /\ isLongPress' = FALSE
  /\ pointerDownSlice' = pointerDownSlice

PointerDown(p, i) ==
  /\ pointerOn[p] = Null
  /\ SlicesReachable
  /\ Len(longPressTimeouts) < MaxPending
  /\ handlePointerDown(i)
  /\ pointerOn' = [pointerOn EXCEPT ![p] = Some(i)]
  /\ last' = [op |-> "pointerdown", slice |-> i]
  /\ UNCHANGED << appVars, dragStartX, panelVars, storageVars, toastTimeouts,
                  savedTimeouts, now, utcDay, localDay, tz, prevCall, allShort,
                  edits, renames >>

\* The slice is mounted while the pie view is shown; a pointer that went down
\* on it delivers its pointerup to it.
PointerUp(p) ==
  /\ pointerOn[p] # Null
  /\ currentView = 0
  /\ handlePointerUp
  /\ pointerOn' = [pointerOn EXCEPT ![p] = Null]
  /\ last' = [op |-> "pointerup", slice |-> Val(pointerOn[p])]
  /\ UNCHANGED << appVars, dragStartX, panelVars, storageVars, toastTimeouts,
                  savedTimeouts, now, utcDay, localDay, tz, prevCall, allShort,
                  edits, renames >>

PointerCancel(p) ==
  /\ pointerOn[p] # Null
  /\ currentView = 0
  /\ handlePointerUp
  /\ pointerOn' = [pointerOn EXCEPT ![p] = Null]
  /\ last' = [op |-> "pointercancel", slice |-> Val(pointerOn[p])]
  /\ UNCHANGED << appVars, dragStartX, panelVars, storageVars, toastTimeouts,
                  savedTimeouts, now, utcDay, localDay, tz, prevCall, allShort,
                  edits, renames >>

\* The pointer moves off the slice with the button still down; its release
\* happens elsewhere.
PointerLeave(p) ==
  /\ pointerOn[p] # Null
  /\ currentView = 0
  /\ handlePointerLeave
  /\ pointerOn' = [pointerOn EXCEPT ![p] = Null]
  /\ last' = [op |-> "pointerleave", slice |-> Val(pointerOn[p])]
  /\ UNCHANGED << appVars, dragStartX, panelVars, storageVars, toastTimeouts,
                  savedTimeouts, now, utcDay, localDay, tz, prevCall, allShort,
                  edits, renames >>

\* The callback of the long-press timeout, lines 370-388.
LongPressFires ==
  /\ Due(longPressTimeouts)
  /\ LET idx == longPressTimeouts[1].idx
         orbs == OrbsOf(orbitals, idx)
     IN  /\ isLongPress' = TRUE
         /\ orbitalPositions' = Positions(idx, orbs)
         /\ activeSlice' = Some(idx)
         /\ last' = [op |-> "longpress", slice |-> idx]
  /\ longPressTimeouts' = Tail(longPressTimeouts)
  /\ longPressTimer' = IF longPressTimer = 0 THEN 0 ELSE longPressTimer - 1
  /\ Render(TRUE)
  /\ UNCHANGED << logs, orbitals, currentView, showSettings, justLogged,
                  pointerDownSlice, dragStartX, panelVars, storageVars,
                  toastTimeouts, savedTimeouts, envVars, prevCall, allShort, edits, renames >>

\* ------------------------------------------------------ orbital buttons
\* logActivity without setActiveSlice(null).
logActivityKeepsSlice(catId, orbital) ==
  LET key == LogKey(catId, orbital)
  IN  /\ logs' = Spread(logs, todayStr,
                        Spread(GetOr(logs, todayStr, EmptyObj), key, now))
      /\ justLogged' = Some([catId |-> catId, orbital |-> orbital])
      /\ toastTimeouts' = SetTimeout(toastTimeouts, [remaining |-> ToastMs])
      /\ activeSlice' = activeSlice
      /\ ritual_logs' = Some(JSONstringifyLogs(logs'))

\* logActivity(catId, orbital), lines 352-362.  Date.now() is `now`; the
\* persist effect of line 340 runs after the render that setLogs causes.
logActivity(catId, orbital) ==
  LET key == LogKey(catId, orbital)
  IN  /\ logs' = Spread(logs, todayStr,
                        Spread(GetOr(logs, todayStr, EmptyObj), key, now))
      /\ justLogged' = Some([catId |-> catId, orbital |-> orbital])
      /\ toastTimeouts' = SetTimeout(toastTimeouts, [remaining |-> ToastMs])
      /\ activeSlice' = Null
      /\ ritual_logs' = Some(JSONstringifyLogs(logs'))

\* The orbital buttons and the backdrop are shown in the pie view while a
\* slice is active; the settings panel covers them.
OrbitalsReachable == currentView = 0 /\ activeSlice # Null /\ ~showSettings

\* onClick of the i-th orbital button, lines 593-604.
SelectOrbital(i) ==
  /\ OrbitalsReachable
  /\ Len(toastTimeouts) < MaxPending
  /\ LET cat == Category(Val(activeSlice))
         orbs == OrbsOf(orbitals, Val(activeSlice))
     IN  /\ i \in 1..Len(orbs)
         /\ logActivity(cat.id, orbs[i])
         /\ last' = [op |-> "logActivity", catId |-> cat.id, orbital |-> orbs[i],
                      slice |-> Val(activeSlice), pos |-> i]
         /\ prevCall' = Some([catId |-> cat.id, orbital |-> orbs[i],
                              day |-> localDay, at |-> now])
  /\ Render(TRUE)
  /\ UNCHANGED << orbitals, currentView, orbitalPositions, showSettings, refVars,
                  panelVars, ritual_orbitals, longPressTimeouts, savedTimeouts,
                  envVars, allShort, edits, renames >>

\* dismissOrbitals, line 405, from the backdrop's onClick, line 632.
DismissOrbitals ==
  /\ OrbitalsReachable
  /\ activeSlice' = Null
  /\ Render(TRUE)
  /\ last' = [op |-> "dismiss"]
  /\ UNCHANGED << logs, orbitals, currentView, orbitalPositions, showSettings,
                  justLogged, refVars, panelVars, storageVars, timeoutVars,
                  envVars, prevCall, allShort, edits, renames >>

\* The callback of the timeout of line 359: setJustLogged(null).
ToastFires ==
  /\ Due(toastTimeouts)
  /\ toastTimeouts' = Tail(toastTimeouts)
  /\ justLogged' = Null
  /\ Render(justLogged # Null)
  /\ last' = [op |-> "toastclear"]
  /\ UNCHANGED << logs, orbitals, currentView, activeSlice, orbitalPositions,
                  showSettings, refVars, panelVars, storageVars,
                  longPressTimeouts, savedTimeouts, envVars,
                  prevCall, allShort, edits, renames >>

\* ------------------------------------------------------- view switching
\* The root element has onTouchStart and onTouchEnd only while
\* activeSlice === null, lines 441-442.
\* handleTouchStart, line 409.
TouchStart(x) ==
  /\ activeSlice = Null
  /\ dragStartX' = Some(x)
  /\ last' = [op |-> "touchstart"]
  /\ UNCHANGED << appVars, longPressTimer, isLongPress, pointerDownSlice,
                  panelVars, storageVars, timeoutVars, envVars,
                  prevCall, allShort, edits, renames >>

\* SwipeView with the threshold test written >= instead of >.
SwipeViewAtThreshold(view, startX, endX) ==
  LET dx == endX - startX
      abs == IF dx < 0 THEN 0 - dx ELSE dx
  IN  IF abs >= SwipeThreshold
      THEN IF dx < 0 /\ view < MaxView THEN view + 1
           ELSE IF dx > 0 /\ view > 0 THEN view - 1
           ELSE view
      ELSE view

\* The view that handleTouchEnd sets, lines 412-416.
SwipeView(view, startX, endX) ==
  LET dx == endX - startX
      abs == IF dx < 0 THEN 0 - dx ELSE dx
  IN  IF abs > SwipeThreshold
      THEN IF dx < 0 /\ view < MaxView THEN view + 1
           ELSE IF dx > 0 /\ view > 0 THEN view - 1
           ELSE view
      ELSE view

\* handleTouchEnd, lines 410-418; with dragStartX null it returns at once.
TouchEnd(x) ==
  /\ activeSlice = Null
  /\ dragStartX # Null
  /\ currentView' = SwipeView(currentView, Val(dragStartX), x)
  /\ dragStartX' = Null
  /\ Render(currentView' # currentView)
  /\ last' = [op |-> "touchend", dx |-> x - Val(dragStartX), from |-> currentView]
  /\ UNCHANGED << logs, orbitals, activeSlice, orbitalPositions, showSettings,
                  justLogged, longPressTimer, isLongPress, pointerDownSlice,
                  panelVars, storageVars, timeoutVars, envVars,
                  prevCall, allShort, edits, renames >>

\* onClick of the i-th view tab, line 482; the settings panel covers the tabs.
SelectTab(i) ==
  /\ ~showSettings
  /\ currentView' = i
  /\ Render(currentView' # currentView)
  /\ last' = [op |-> "tab", view |-> i]
  /\ UNCHANGED << logs, orbitals, activeSlice, orbitalPositions, showSettings,
                  justLogged, refVars, panelVars, storageVars, timeoutVars,
                  envVars, prevCall, allShort, edits, renames >>

\* ------------------------------------------------------ settings panel
\* onClick of the settings button, line 466: the panel is mounted with its
\* initial state, lines 196-198.
OpenSettings ==
  /\ ~showSettings
  /\ showSettings' = TRUE
  /\ expandedCat' = Null
  /\ editValues' = Some(orbitals)
  /\ editValuesIsNew' = FALSE
  /\ saved' = FALSE
  /\ Render(TRUE)
  /\ last' = [op |-> "opensettings"]
  /\ edits' = << >>
  /\ UNCHANGED << logs, orbitals, currentView, activeSlice, orbitalPositions,
                  justLogged, refVars, storageVars, timeoutVars, envVars,
                  prevCall, allShort, renames >>

\* onClose, line 755: the panel is unmounted and its state is gone; the
\* callbacks of its pending timeouts no longer have any effect.
onClose ==
  /\ showSettings' = FALSE
  /\ expandedCat' = Null
  /\ editValues' = Null
  /\ editValuesIsNew' = FALSE
  /\ saved' = FALSE
  /\ savedTimeouts' = << >>
  /\ edits' = << >>

CloseSettings ==
  /\ showSettings
  /\ onClose
  /\ Render(TRUE)
  /\ last' = [op |-> "closesettings"]
  /\ UNCHANGED << logs, orbitals, currentView, activeSlice, orbitalPositions,
                  justLogged, refVars, storageVars, longPressTimeouts,
                  toastTimeouts, envVars, prevCall, allShort, renames >>

\* onClick of a category row, line 245.
ToggleCategory(idx) ==
  /\ showSettings
  /\ expandedCat' = IF expandedCat = Some(Category(idx).id) THEN Null
                    ELSE Some(Category(idx).id)
  /\ last' = [op |-> "togglecategory"]
  /\ UNCHANGED << appVars, refVars, editValues, editValuesIsNew, saved,
                  storageVars, timeoutVars, envVars, prevCall, allShort, edits, renames >>

\* SetAt with the test of the index inverted.
SetAtOthers(arr, i, value) == [ j \in 1..Len(arr) |-> IF j # i THEN value ELSE arr[j] ]

\* prev[cat.id].map((o, j) => j === i ? e.target.value : o), line 270.
SetAt(arr, i, value) == [ j \in 1..Len(arr) |-> IF j = i THEN value ELSE arr[j] ]

\* onChange of the i-th input of the expanded category, lines 268-271.
EditOrbital(idx, i, value) ==
  /\ showSettings
  /\ expandedCat = Some(Category(idx).id)
  /\ LET id == Category(idx).id
         prev == Val(editValues)
     IN  /\ id \in DOMAIN prev
         /\ i \in 1..Len(prev[id])
         /\ editValues' = Some(Spread(prev, id, SetAt(prev[id], i, value)))
         /\ edits' = Spread(edits, << id, i >>, value)
  /\ editValuesIsNew' = TRUE
  /\ last' = [op |-> "edit", slice |-> idx, pos |-> i, value |-> value]
  /\ UNCHANGED << appVars, refVars, expandedCat, saved, storageVars,
                  timeoutVars, envVars, prevCall, allShort, renames >>

\* setOrbitals without the persist effect.
setOrbitalsInMemory(orbs) ==
  /\ orbitals' = orbs
  /\ ritual_orbitals' = ritual_orbitals

\* The setOrbitals prop, line 753, and the persist effect of line 341.
setOrbitals(orbs) ==
  /\ orbitals' = orbs
  /\ ritual_orbitals' = Some(JSONstringifyOrbitals(orbs))

\* handleSave, lines 200-204.
SaveSettings ==
  /\ showSettings
  /\ Len(savedTimeouts) < MaxPending
  /\ setOrbitals(Val(editValues))
  /\ saved' = TRUE
  /\ savedTimeouts' = SetTimeout(savedTimeouts, [remaining |-> SavedMs])
  /\ editValuesIsNew' = FALSE
  /\ Render(editValuesIsNew)
  /\ last' = [op |-> "save", edits |-> edits, before |-> orbitals]
  /\ edits' = << >>
  /\ renames' = [ x \in (DOMAIN renames) \cup (DOMAIN edits) |->
                    IF x \in DOMAIN edits THEN edits[x] ELSE renames[x] ]
  /\ UNCHANGED << logs, currentView, activeSlice, orbitalPositions, showSettings,
                  justLogged, refVars, expandedCat, editValues, ritual_logs,
                  longPressTimeouts, toastTimeouts, envVars, prevCall, allShort >>

\* The callback of the timeout of line 203: setSaved(false).
SavedFires ==
  /\ Due(savedTimeouts)
  /\ savedTimeouts' = Tail(savedTimeouts)
  /\ saved' = FALSE
  /\ last' = [op |-> "savedclear"]
  /\ UNCHANGED << appVars, refVars, expandedCat, editValues, editValuesIsNew,
                  storageVars, longPressTimeouts, toastTimeouts, envVars,
                  prevCall, allShort, edits, renames >>

\* onClearData without the persist effect: the item stays removed, and the
\* state is not set.
onClearDataRemoveOnly ==
  /\ logs' = logs
  /\ ritual_logs' = Null

\* The onClearData prop, line 754: setLogs({}) and removeItem("ritual_logs");
\* the persist effect of line 340 then stores the new logs.
onClearData ==
  /\ logs' = EmptyObj
  /\ ritual_logs' = Some(JSONstringifyLogs(logs'))

\* onClick of CLEAR ALL DATA with the confirm accepted, line 302.
ClearAllData ==
  /\ showSettings
  /\ onClearData
  /\ onClose
  /\ Render(TRUE)
  /\ last' = [op |-> "clear", had |-> logs # EmptyObj]
  /\ prevCall' = Null
  /\ UNCHANGED << orbitals, currentView, activeSlice, orbitalPositions,
                  justLogged, refVars, ritual_orbitals, longPressTimeouts,
                  toastTimeouts, envVars, allShort, renames >>

\* ------------------------------------------------------------- the clock
\* The time zone is west of UTC (-1: the local date changes after the UTC
\* date), UTC (0) or east of it (1: the local date changes first).
DayChanges ==
  IF tz = 0 THEN utcDay' = utcDay + 1 /\ localDay' = localDay + 1
  ELSE IF (tz = 1) = (localDay = utcDay)
       THEN localDay' = localDay + 1 /\ utcDay' = utcDay
       ELSE utcDay' = utcDay + 1 /\ localDay' = localDay

\* TickMs milliseconds pass; midnight (UTC or local) may fall in them.  No
\* timeout is overdue: its callback runs first.
Tick(midnight) ==
  /\ now < MaxTicks * TickMs
  /\ NoneDue(longPressTimeouts) /\ NoneDue(toastTimeouts) /\ NoneDue(savedTimeouts)
  /\ now' = now + TickMs
  /\ longPressTimeouts' = Elapse(longPressTimeouts)
  /\ toastTimeouts' = Elapse(toastTimeouts)
  /\ savedTimeouts' = Elapse(savedTimeouts)
  /\ IF midnight
     THEN DayChanges /\ utcDay' <= MaxDay /\ localDay' <= MaxDay
     ELSE UNCHANGED << utcDay, localDay >>
  /\ last' = [op |-> "tick"]
  /\ allShort' = (allShort /\ \A p \in Pointers : pointerOn[p] = Null)
  /\ UNCHANGED << appVars, refVars, panelVars, storageVars, tz, pointerOn,
                  prevCall, edits, renames >>

Next ==
  \/ \E p \in Pointers, i \in PressSlices : PointerDown(p, i)
  \/ \E p \in Pointers : PointerUp(p)
  \/ \E p \in Pointers : PointerCancel(p)
  \/ \E p \in Pointers : PointerLeave(p)
  \/ LongPressFires
  \/ \E i \in TapOrbitals : SelectOrbital(i)
  \/ DismissOrbitals
  \/ ToastFires
  \/ \E x \in TouchXs : TouchStart(x)
  \/ \E x \in TouchXs : TouchEnd(x)
  \/ \E i \in 0..MaxView : SelectTab(i)
  \/ OpenSettings
  \/ CloseSettings
  \/ \E idx \in EditSlices : ToggleCategory(idx)
  \/ \E idx \in EditSlices, i \in EditPositions, v \in TypedNames : EditOrbital(idx, i, v)
  \/ SaveSettings
  \/ SavedFires
  \/ ClearAllData
  \/ \E midnight \in BOOLEAN : Tick(midnight)

Spec == Init /\ [][Next]_vars

\* The same program with only part of the user's repertoire: pressing
\* slices and choosing orbitals.
NextPress ==
  \/ \E p \in Pointers, i \in PressSlices : PointerDown(p, i)
  \/ \E p \in Pointers : PointerUp(p)
  \/ \E p \in Pointers : PointerCancel(p)
  \/ \E p \in Pointers : PointerLeave(p)
  \/ LongPressFires
  \/ \E i \in TapOrbitals : SelectOrbital(i)
  \/ DismissOrbitals
  \/ ToastFires
  \/ \E midnight \in BOOLEAN : Tick(midnight)

SpecPress == Init /\ [][NextPress]_vars

\* Pressing and choosing with a single pointer.
NextTap ==
  \/ \E i \in PressSlices : PointerDown(1, i)
  \/ PointerUp(1)
  \/ PointerCancel(1)
  \/ PointerLeave(1)
  \/ LongPressFires
  \/ \E i \in TapOrbitals : SelectOrbital(i)
  \/ DismissOrbitals
  \/ ToastFires
  \/ \E midnight \in BOOLEAN : Tick(midnight)

SpecTap == Init /\ [][NextTap]_vars

\* Swiping, the view tabs, opening and closing the settings, long presses.
NextView ==
  \/ \E i \in PressSlices : PointerDown(1, i)
  \/ PointerUp(1)
  \/ LongPressFires
  \/ DismissOrbitals
  \/ \E x \in TouchXs : TouchStart(x)
  \/ \E x \in TouchXs : TouchEnd(x)
  \/ \E i \in 0..MaxView : SelectTab(i)
  \/ OpenSettings
  \/ CloseSettings
  \/ \E midnight \in BOOLEAN : Tick(midnight)

SpecView == Init /\ [][NextView]_vars

\* The settings panel, and long presses that log under the saved names.
NextSettings ==
  \/ \E i \in EditSlices : PointerDown(1, i)
  \/ PointerUp(1)
  \/ LongPressFires
  \/ \E i \in TapOrbitals : SelectOrbital(i)
  \/ ToastFires
  \/ OpenSettings
  \/ CloseSettings
  \/ \E idx \in EditSlices : ToggleCategory(idx)
  \/ \E idx \in EditSlices, i \in EditPositions, v \in TypedNames : EditOrbital(idx, i, v)
  \/ SaveSettings
  \/ SavedFires
  \/ ClearAllData
  \/ \E midnight \in BOOLEAN : Tick(midnight)

SpecSettings == Init /\ [][NextSettings]_vars

\* Pressing and choosing with a single pointer, in any time zone.
SpecZones == InitZones /\ [][NextTap]_vars

\* Switching views in any time zone.
NextWeek ==
  \/ \E x \in TouchXs : TouchStart(x)
  \/ \E x \in TouchXs : TouchEnd(x)
  \/ \E i \in 0..MaxView : SelectTab(i)
  \/ \E midnight \in BOOLEAN : Tick(midnight)

SpecWeek == InitZones /\ [][NextWeek]_vars

\* Logging two orbitals of two categories and looking at the weekly view,
\* in any time zone.
NextChart ==
  \/ \E i \in PressSlices : PointerDown(1, i)
  \/ PointerUp(1)
  \/ LongPressFires
  \/ \E i \in ChartOrbitals : SelectOrbital(i)
  \/ ToastFires
  \/ \E i \in ChartViews : SelectTab(i)
  \/ \E midnight \in BOOLEAN : Tick(midnight)

SpecChart == InitMonday /\ [][NextChart]_vars

\* Logging, clearing the logs and looking at the history view.
NextHistory ==
  \/ \E i \in PressSlices : PointerDown(1, i)
  \/ PointerUp(1)
  \/ LongPressFires
  \/ \E i \in ChartOrbitals : SelectOrbital(i)
  \/ ToastFires
  \/ \E i \in HistoryViews : SelectTab(i)
  \/ OpenSettings
  \/ ClearAllData
  \/ \E midnight \in BOOLEAN : Tick(midnight)

SpecHistory == Init /\ [][NextHistory]_vars

\* Pressing and choosing with a single pointer, after a start with anything
\* in localStorage.
SpecStored == InitStored /\ [][NextTap]_vars

\* Every kind of interaction within one day, with a single pointer on one
\* slice.
NextInteract ==
  \/ \E i \in EditSlices : PointerDown(1, i)
  \/ PointerUp(1)
  \/ PointerCancel(1)
  \/ PointerLeave(1)
  \/ LongPressFires
  \/ \E i \in TapOrbitals : SelectOrbital(i)
  \/ DismissOrbitals
  \/ ToastFires
  \/ \E x \in SwipeStartXs : TouchStart(x)
  \/ \E x \in SwipeEndXs : TouchEnd(x)
  \/ \E i \in ChartViews : SelectTab(i)
  \/ OpenSettings
  \/ CloseSettings
  \/ \E idx \in EditSlices : ToggleCategory(idx)
  \/ \E idx \in EditSlices, i \in EditPositions, v \in TypedNames : EditOrbital(idx, i, v)
  \/ SaveSettings
  \/ SavedFires
  \/ ClearAllData
  \/ Tick(FALSE)

SpecInteract == Init /\ [][NextInteract]_vars

\* ================================================================ claims
\* The date string of a local calendar date, and a day's DayLog.
LocalDateStr(day) == day

DayLogOf(store, date) == GetOr(store, date, EmptyObj)

Released == \A p \in Pointers : pointerOn[p] = Null

\* C1: when recordActivity(c, o) is called and the call before it (with no
\* clear in between) was recordActivity(c, o) too, made on the same local
\* day, then after the call that day's DayLog holds the key c:o with the
\* time of this call, and it has as many keys as before the call.
C1_SecondCallSameDayOverwrites ==
  [][ ( /\ last'.op = "logActivity"
        /\ prevCall # Null
        /\ Val(prevCall).catId = last'.catId
        /\ Val(prevCall).orbital = last'.orbital
        /\ Val(prevCall).day = localDay )
      => LET date == LocalDateStr(localDay)
             key == LogKey(last'.catId, last'.orbital)
         IN  /\ key \in DOMAIN DayLogOf(logs', date)
             /\ DayLogOf(logs', date)[key] = now
             /\ Cardinality(DOMAIN DayLogOf(logs', date))
                  = Cardinality(DOMAIN DayLogOf(logs, date)) ]_vars

\* C2: in every reachable state at most one long-press timeout is pending (a
\* second pointer-down cancels the timeout of the first).
C2_AtMostOneLongPressTimer == Len(longPressTimeouts) <= 1

\* C3: as long as every press was released (pointer-up, pointer-leave or
\* pointer-cancel) before its deadline, once the pointers are released no
\* long-press timeout is pending, no slice is active and the LogStore is as
\* it was at the start.
C3_ShortPressesDoNothing ==
  (allShort /\ Released)
    => (longPressTimeouts = << >> /\ activeSlice = Null /\ logs = EmptyObj)

\* C4: whenever the long-press timeout fires, the slice that becomes active
\* is one that a pointer is pressing at that moment.
C4_ActivatesThePressedSlice ==
  [][ last'.op = "longpress"
      => /\ activeSlice' # Null
         /\ \E p \in Pointers : pointerOn[p] = activeSlice' ]_vars

\* C5: the notification shows the arguments of the latest recordActivity
\* call, and it is cleared only when 2000 ms have passed since that call (a
\* timeout started by an earlier call never clears a newer notification).
C5_ToastWindowRestarts ==
  [][ /\ (justLogged' # Null /\ prevCall' # Null)
           => /\ Val(justLogged').catId = Val(prevCall').catId
              /\ Val(justLogged').orbital = Val(prevCall').orbital
      /\ (justLogged # Null /\ justLogged' = Null /\ prevCall # Null)
           => now - Val(prevCall).at >= ToastMs ]_vars

Abs(n) == IF n < 0 THEN 0 - n ELSE n

\* C6: a touch that ends more than 60 pixels from where it started leaves
\* the view index unchanged while a long-press timeout is pending, while a
\* slice is active and while the settings panel is open.
C6_SwipeSuppressed ==
  [][ ( /\ last'.op = "touchend"
        /\ Abs(last'.dx) > SwipeThreshold
        /\ (longPressTimeouts # << >> \/ activeSlice # Null \/ showSettings) )
      => currentView' = currentView ]_vars

\* C7: the view index starts at 0 and stays in {0, 1, 2}; a tab sets it to
\* the tab's index; a touch that ends more than 60 pixels left of (right of)
\* its start adds (subtracts) one, without leaving [0, 2]; a touch that ends
\* within 60 pixels of its start, and every other event, leaves it unchanged.
C7_ViewIndex ==
  /\ currentView = 0
  /\ [][ /\ currentView' \in {0, 1, 2}
         /\ last'.op = "tab" => currentView' = last'.view
         /\ last'.op = "touchend" =>
              currentView' =
                IF last'.dx < 0 - 60 THEN (IF currentView = 2 THEN 2 ELSE currentView + 1)
                ELSE IF last'.dx > 60 THEN (IF currentView = 0 THEN 0 ELSE currentView - 1)
                ELSE currentView
         /\ last'.op \notin {"tab", "touchend"} => currentView' = currentView ]_vars

\* C7's case: a swipe to the left in the last view, which stays the last view.
C7_Witness ==
  /\ last.op = "touchend"
  /\ last.dx < 0 - 60
  /\ last.from = 2
  /\ currentView = 2

\* C8: the confirmed "Clear all data" empties the LogStore whatever it held,
\* leaves the OrbitalConfig as it was in memory and in storage, and leaves in
\* ritual_logs the text of the empty LogStore.
C8_ClearEmptiesLogsOnly ==
  [][ last'.op = "clear"
      => /\ logs' = EmptyObj
         /\ orbitals' = orbitals
         /\ ritual_orbitals' = ritual_orbitals
         /\ ritual_logs' # Null
         /\ JSONparseLogs(Val(ritual_logs')) = EmptyObj ]_vars

\* C8's case: a LogStore with entries, and a renamed orbital, were cleared.
C8_Witness ==
  /\ last.op = "clear"
  /\ last.had
  /\ logs = EmptyObj
  /\ orbitals # DefaultOrbitals

\* The config with the renames of `changes` (a function of <<id, position>>).
Renamed(config, changes) ==
  [ id \in DOMAIN config |->
      [ j \in 1..Len(config[id]) |->
          IF << id, j >> \in DOMAIN changes THEN changes[<< id, j >>]
          ELSE config[id][j] ] ]

\* C9: Save changes exactly the orbitals renamed in the panel, in memory and
\* in ritual_orbitals; and choosing a renamed orbital after that logs under
\* the key categoryId:newName.
C9_SaveRenamesExactly ==
  [][ /\ last'.op = "save"
         => /\ orbitals' = Renamed(orbitals, edits)
            /\ ritual_orbitals' # Null
            /\ JSONparseOrbitals(Val(ritual_orbitals')) = Renamed(orbitals, edits)
      /\ ( /\ last'.op = "logActivity"
           /\ << last'.catId, last'.pos >> \in DOMAIN renames )
         => LET name == renames[<< last'.catId, last'.pos >>]
            IN  /\ last'.orbital = name
                /\ last'.catId \o <<":">> \o name \in DOMAIN DayLogOf(logs', todayStr) ]_vars

\* C9's case: one orbital was renamed and saved, and then chosen.
C9_Witness ==
  /\ last.op = "logActivity"
  /\ Cardinality(DOMAIN renames) = 1
  /\ << last.catId, last.pos >> \in DOMAIN renames
  /\ \E d \in DOMAIN logs : <<"finance", ":", "Run">> \in DOMAIN logs[d]

\* C10: every step but the clear keeps every (date, key) entry of the
\* LogStore, and recordActivity changes no entry but the one of today's local
\* date and the key categoryId:orbitalName.
C10_LogStoreGrows ==
  [][ /\ last'.op # "clear"
         => \A d \in DOMAIN logs :
              d \in DOMAIN logs' /\ DOMAIN logs[d] \subseteq DOMAIN logs'[d]
      /\ last'.op = "logActivity"
         => \A d \in (DOMAIN logs) \cup (DOMAIN logs') :
              \A k \in (DOMAIN DayLogOf(logs, d)) \cup (DOMAIN DayLogOf(logs', d)) :
                 \/ /\ d = LocalDateStr(localDay)
                    /\ k = LogKey(last'.catId, last'.orbital)
                 \/ /\ k \in DOMAIN DayLogOf(logs, d)
                    /\ k \in DOMAIN DayLogOf(logs', d)
                    /\ logs'[d][k] = logs[d][k] ]_vars

\* C11: when recordActivity(c, o) is called, the LogStore afterwards holds the
\* key c:o, with the time of the call, under the date string of the local
\* calendar date of that moment, in every time zone and also when the date
\* has changed since the last render.
C11_StoredUnderLocalDate ==
  [][ last'.op = "logActivity"
      => LET date == LocalDateStr(localDay)
             key == LogKey(last'.catId, last'.orbital)
         IN  /\ date \in DOMAIN logs'
             /\ key \in DOMAIN logs'[date]
             /\ logs'[date][key] = now ]_vars

\* The Monday of the Monday-to-Sunday week of a local day (day 0 is a Monday).
MondayOf(day) == day - (day % 7)

\* C12: whenever the weekly view is shown, currentWeekDates() is 7 date
\* strings, the first the date of the Monday of the week of today's local
\* date and each next one the date of the day after, on every day of the week
\* and in every time zone.
C12_WeekFromLocalMonday ==
  currentView = 1
    => LET week == getWeekDates(localDay, tz)
       IN  /\ Len(week) = 7
           /\ week[1] = LocalDateStr(MondayOf(localDay))
           /\ \A n \in 1..6 : week[n + 1] = LocalDateStr(MondayOf(localDay) + n)

\* Every orbital name of the registry, and the names that can be typed.
OrbitalNames ==
  UNION { { DEFAULT_CATEGORIES[c].orbitals[n] : n \in 1..3 } : c \in 1..8 }
    \cup TypedNames

\* The keys categoryId:orbitalName of each category.
KeysOfCategory == [ c \in CategoryIds |-> { LogKey(c, o) : o \in OrbitalNames } ]

\* The keys of the orbitals of category c that are logged on a date.
LoggedOrbitals(store, date, c) == DOMAIN DayLogOf(store, date) \cap KeysOfCategory[c]

\* C13: whenever the weekly view is shown, the table has 7 rows; each row has
\* a count for each of the 8 categories, which is the number of orbitals of
\* that category logged on the row's date; the counts of a date that the
\* LogStore has no entry for are all zero.
C13_WeeklyTable ==
  currentView = 1
    => \E week \in { getWeekDates(localDay, tz) } :
       \E data \in { WeeklyChartData(logs, week, DEFAULT_CATEGORIES) } :
          /\ Len(data) = 7
          /\ \A n \in 1..7 :
               /\ DOMAIN data[n] = CategoryIds \cup {<<"day">>}
               /\ Cardinality(DOMAIN data[n] \ {<<"day">>}) = 8
               /\ \A c \in CategoryIds :
                    /\ data[n][c] = Cardinality(LoggedOrbitals(logs, week[n], c))
                    /\ week[n] \notin DOMAIN logs => data[n][c] = 0

\* C13's case: the weekly view shows a row with two orbitals of one category
\* and one of another, and a row of a date without entry.
C13_Witness ==
  /\ currentView = 1
  /\ \E week \in { getWeekDates(localDay, tz) } :
     \E data \in { WeeklyChartData(logs, week, DEFAULT_CATEGORIES) } :
        /\ \E n \in 1..7 : data[n][<<"finance">>] = 2 /\ data[n][<<"tinkering">>] = 1
        /\ \E n \in 1..7 : week[n] \notin DOMAIN logs

\* The categories with at least one orbital logged on a date.
LoggedCategories(store, date) ==
  { c \in CategoryIds : LoggedOrbitals(store, date, c) # {} }

\* The dates of the LogStore's entries and the dates around them.
HistoryDates == 0..(MaxDay + 1)

\* C14: after any recordActivity and clearAllLogs calls from an empty
\* LogStore, the set of categories logged on a date, as the history view and
\* the pie view compute it, is a set of registered category ids: the
\* categories with at least one orbital logged that day, so between 0 and 8
\* of them however many orbitals each has; it is empty for a date without
\* entry.
C14_LoggedCategorySet ==
  /\ \A d \in HistoryDates :
       \E set \in { getLoggedSet(logs, d) } :
       \E expected \in { LoggedCategories(logs, d) } :
          /\ set \subseteq CategoryIds
          /\ set = expected
          /\ Cardinality(set) \in 0..8
          /\ Cardinality(set) = Cardinality(expected)
          /\ d \notin DOMAIN logs => set = {}
  /\ \E set \in { getLoggedCatsToday(logs, todayStr) } :
       /\ set \subseteq CategoryIds
       /\ set = LoggedCategories(logs, todayStr)
       /\ todayStr \notin DOMAIN logs => set = {}

\* C14's case: the history view shows a date with two orbitals of one
\* category and one of another: three keys, two categories.
C14_Witness ==
  /\ currentView = 2
  /\ \E d \in DOMAIN logs :
       /\ Cardinality(DOMAIN logs[d]) = 3
       /\ Cardinality(getLoggedSet(logs, d)) = 2
  /\ \E d \in HistoryDates : d \notin DOMAIN logs /\ getLoggedSet(logs, d) = {}

\* The OrbitalConfig of the Category Registry: each category's own orbitals.
RegistryDefaults ==
  [ c \in CategoryIds |->
      (CHOOSE cat \in { DEFAULT_CATEGORIES[n] : n \in 1..8 } : cat.id = c).orbitals ]

\* C15: right after the start, the LogStore is {} when ritual_logs was absent
\* or did not parse, and the OrbitalConfig is the registry's defaults when
\* ritual_orbitals was absent or did not parse; a LogStore or OrbitalConfig
\* stored by an earlier session is loaded as that session held it, and the
\* stored text stays what it was; in each case the app has a LogStore and an
\* OrbitalConfig with three orbitals for each category.
C15_StartupFallbacks ==
  last.op = "mount"
    => /\ (last.logsItem = Null \/ last.logsItem = Some(Malformed))
            => logs = EmptyObj
       /\ (last.orbitalsItem = Null \/ last.orbitalsItem = Some(Malformed))
            => orbitals = RegistryDefaults
       /\ last.logsItem = Some(JSONstringifyLogs(EarlierLogs))
            => logs = EarlierLogs /\ ritual_logs = last.logsItem
       /\ last.orbitalsItem = Some(JSONstringifyOrbitals(EarlierOrbitals))
            => orbitals = EarlierOrbitals /\ ritual_orbitals = last.orbitalsItem
       /\ DOMAIN orbitals = CategoryIds
       /\ \A c \in CategoryIds : Len(orbitals[c]) = 3

\* C15's case: a start with a ritual_logs that does not parse and the
\* ritual_orbitals of an earlier session.
C15_Witness ==
  /\ last.op = "mount"
  /\ last.logsItem = Some(Malformed)
  /\ last.orbitalsItem = Some(JSONstringifyOrbitals(EarlierOrbitals))
  /\ logs = EmptyObj
  /\ orbitals # RegistryDefaults

\* C16: choosing the orbital orb of the active slice i records
\* category[i].id:orb with the time of the call and leaves no slice active;
\* every other interaction but the clear (pointer-down, -up, -leave, -cancel,
\* the timeouts, the backdrop, swipes, tabs, the settings edits and Save)
\* leaves the LogStore as it is, and the clear adds and changes no entry.
C16_OnlySelectingLogs ==
  [][ /\ last'.op = "logActivity"
         => /\ activeSlice # Null
            /\ last'.catId = DEFAULT_CATEGORIES[Val(activeSlice) + 1].id
            /\ \E d \in DOMAIN logs' :
                  /\ LogKey(last'.catId, last'.orbital) \in DOMAIN logs'[d]
                  /\ logs'[d][LogKey(last'.catId, last'.orbital)] = now
            /\ activeSlice' = Null
      /\ last'.op \notin {"logActivity", "clear"} => logs' = logs
      /\ last'.op = "clear"
         => \A d \in DOMAIN logs' :
               /\ d \in DOMAIN logs
               /\ \A k \in DOMAIN logs'[d] :
                     k \in DOMAIN logs[d] /\ logs'[d][k] = logs[d][k] ]_vars

\* C16's case: after a rename was saved, an orbital was chosen; its entry is
\* in the LogStore and no slice is active.
C16_Witness ==
  /\ last.op = "logActivity"
  /\ activeSlice = Null
  /\ renames # << >>
  /\ \E d \in DOMAIN logs : LogKey(last.catId, last.orbital) \in DOMAIN logs[d]

\* C17: in every state (the persist effects of a render have run), and so
\* after any recordActivity, clearAllLogs and replaceOrbitalConfig, the text
\* under ritual_logs decodes to the LogStore in memory and the text under
\* ritual_orbitals decodes to the OrbitalConfig in memory.
C17_StorageMirrorsMemory ==
  /\ ritual_logs # Null
  /\ JSONparseLogs(Val(ritual_logs)) = logs
  /\ ritual_orbitals # Null
  /\ JSONparseOrbitals(Val(ritual_orbitals)) = orbitals

\* C17's case: a renamed OrbitalConfig was saved while the LogStore had an
\* entry, and both are in storage.
C17_Witness ==
  /\ last.op = "save"
  /\ logs # EmptyObj
  /\ orbitals # RegistryDefaults
  /\ ritual_logs = Some(JSONstringifyLogs(logs))
  /\ ritual_orbitals = Some(JSONstringifyOrbitals(orbitals))

\* C18: while a slice is active, every step but the tap on the backdrop and
\* the choice of an orbital (so pointer-up, pointer-leave, pointer-cancel and
\* the expiry of any timeout) leaves that same slice active.
C18_ActiveUntilDismissedOrChosen ==
  [][ (activeSlice # Null /\ last'.op \notin {"dismiss", "logActivity"})
      => activeSlice' = activeSlice ]_vars

====
